---- MODULE Spec2Model ----
(***************************************************************************)
(* Model of the Translation Gateway in src/translator/app.py: the three    *)
(* POST handlers translate_text, translate_batch and voice_translate, the  *)
(* two external capabilities they call (translator.translate, gTTS.save)   *)
(* and the three audio artifacts under static/ that they overwrite.        *)
(*                                                                         *)
(* A string is a sequence of runs <<character, count>>, so that texts of   *)
(* 500 and 501 characters are ordinary values.  A handler is cut into      *)
(* steps at its external calls, the only places where a request handled by *)
(* one server thread can be overtaken by another.                          *)
(***************************************************************************)
EXTENDS Integers, Sequences, FiniteSets, TLC

\* ---------------------------------------------------------------- bounds
MaxRuns == 2
MaxBatch == 3

\* ------------------------------------------------------ program constants
MaxTextLen == 500

\* ---------------------------------------------------------------- strings
Chars == {" ", "a"}
Whitespace == {" "}
RunLens == {1, MaxTextLen, MaxTextLen + 1}
Run == Chars \X RunLens

RunSeqs(n) == UNION {[1..k -> Run] : k \in 0..n}

\* run sequences in which neighbouring runs hold different characters
Texts == {t \in RunSeqs(MaxRuns) : \A i \in 1..(Len(t) - 1) : t[i][1] # t[i + 1][1]}

RECURSIVE StrLen(_)
StrLen(t) == IF t = <<>> THEN 0 ELSE Head(t)[2] + StrLen(Tail(t))

SetMin(S) == CHOOSE x \in S : \A y \in S : x <= y
SetMax(S) == CHOOSE x \in S : \A y \in S : x >= y

\* str.strip(): drop the leading and the trailing whitespace
Strip(t) ==
    LET keep == {i \in DOMAIN t : t[i][1] \notin Whitespace}
    IN  IF keep = {} THEN <<>> ELSE SubSeq(t, SetMin(keep), SetMax(keep))

TooLongInclusive(t) == StrLen(t) >= MaxTextLen

\* len(english_text) > 500
TooLong(t) == StrLen(t) > MaxTextLen

\* ------------------------------------------------------------ JSON values
\* k: the JSON type ("missing" = the key is absent from the request object);
\* s: the characters of a string; n: a number's value; l: a list's entries
JStr(t) == [k |-> "str", s |-> t, n |-> 0, l |-> <<>>]
JNum(i) == [k |-> "num", s |-> <<>>, n |-> i, l |-> <<>>]
JNull == [k |-> "null", s |-> <<>>, n |-> 0, l |-> <<>>]
JObj == [k |-> "obj", s |-> <<>>, n |-> 1, l |-> <<>>]
JMissing == [k |-> "missing", s |-> <<>>, n |-> 0, l |-> <<>>]
JList(es) == [k |-> "list", s |-> <<>>, n |-> 0, l |-> es]

\* an entry of a list: a string or a number
EStr(t) == [k |-> "str", s |-> t]
ENum == [k |-> "num", s |-> <<>>]

\* Python truth value of a JSON value
Truthy(v) ==
    CASE v.k = "str" -> v.s # <<>>
      [] v.k = "num" -> v.n # 0
      [] v.k = "list" -> v.l # <<>>
      [] v.k = "obj" -> v.n # 0
      [] OTHER -> FALSE

GetTextNoDefault(v) == v

\* data.get('text', ''): the default replaces a missing key only
GetText(v) == IF v.k = "missing" THEN JStr(<<>>) ELSE v

\* data.get('texts', [])
GetTexts(v) == IF v.k = "missing" THEN JList(<<>>) ELSE v

RejectTextsFalsyOnly(texts) == ~Truthy(texts)

\* not texts or not isinstance(texts, list)
RejectTexts(texts) == ~Truthy(texts) \/ texts.k # "list"

\* ---------------------------------------------------- external capabilities
KnChar(c) == IF c \in Whitespace THEN c ELSE "k"

\* translator.translate(text, src='en', dest='kn').text when the call succeeds
Kn(t) == [i \in DOMAIN t |-> <<KnChar(t[i][1]), t[i][2]>>]

Files == {"output.mp3", "english_audio.mp3", "kannada_audio.mp3"}

NoFile == [lang |-> "none", src |-> <<>>]
Audio(t, lang) == [lang |-> lang, src |-> t]

SaveKeepExisting(arts, file, t, lang, ok) ==
    IF ok /\ arts[file] = NoFile THEN [arts EXCEPT ![file] = Audio(t, lang)] ELSE arts

SaveToOutput(arts, file, t, lang, ok) ==
    IF ok THEN [arts EXCEPT !["output.mp3"] = Audio(t, lang)] ELSE arts

\* gTTS(text, lang).save(path), taken as one step: when the call returns, the
\* file at the fixed path holds the audio of text, whatever it held; when it
\* raises, the file is as it was
Save(arts, file, t, lang, ok) ==
    IF ok THEN [arts EXCEPT ![file] = Audio(t, lang)] ELSE arts

\* -------------------------------------------------------------- responses
NoResp ==
    [status |-> 0, success |-> FALSE, keys |-> {}, error |-> "",
     english |-> <<>>, kannada |-> <<>>, audio_url |-> "",
     english_audio_url |-> "", kannada_audio_url |-> "", translations |-> <<>>]

ErrorResp(status, msg) ==
    [NoResp EXCEPT !.status = status, !.keys = {"error", "success"}, !.error = msg]

Workers == {"A", "B"}

VARIABLES
    pc,            \* per worker: the position of the request it handles
    kind,          \* per worker: the handler that runs
    data,          \* per worker: the value of 'text' / 'texts' in the request
    english_text,  \* per worker: local of translate_text / voice_translate
    kannada_text,  \* per worker: local of translate_text / voice_translate
    translations,  \* per worker: local of translate_batch
    idx,           \* per worker: position of the for loop of translate_batch
    calls,         \* per worker: the external calls made for this request
    resp,          \* per worker: the response returned
    artifacts,     \* the files under static/
    lastWrite      \* per file: content of the synthesis write that landed last

vars == <<pc, kind, data, english_text, kannada_text, translations, idx,
          calls, resp, artifacts, lastWrite>>

Init ==
    /\ pc = [w \in Workers |-> "idle"]
    /\ kind = [w \in Workers |-> "none"]
    /\ data = [w \in Workers |-> JMissing]
    /\ english_text = [w \in Workers |-> <<>>]
    /\ kannada_text = [w \in Workers |-> <<>>]
    /\ translations = [w \in Workers |-> <<>>]
    /\ idx = [w \in Workers |-> 0]
    /\ calls = [w \in Workers |-> <<>>]
    /\ resp = [w \in Workers |-> NoResp]
    /\ artifacts = [f \in Files |-> NoFile]
    /\ lastWrite = [f \in Files |-> NoFile]

TranslateCall(t, ok) == [op |-> "translate", arg |-> t, lang |-> "kn", file |-> "", ok |-> ok]
SynthCall(t, lang, file, ok) == [op |-> "synth", arg |-> t, lang |-> lang, file |-> file, ok |-> ok]

\* ------------------------------------------------------------------ inputs
sp1 == <<<<" ", 1>>>>
a1 == <<<<"a", 1>>>>
aMax == <<<<"a", MaxTextLen>>>>
aOver == <<<<"a", MaxTextLen + 1>>>>

\* values of the 'text' key: every string of Texts, no key, null, a number
TextValues == {JStr(t) : t \in Texts} \cup {JMissing, JNull, JNum(5)}

BatchEntries == {EStr(<<>>), EStr(sp1), EStr(a1), EStr(sp1 \o a1), ENum}

EntryLists(n) == UNION {[1..k -> BatchEntries] : k \in 0..n}

\* values of the 'texts' key: lists of entries, no key, and values of other types
TextsValues ==
    {JList(l) : l \in EntryLists(MaxBatch)}
        \cup {JMissing, JNull, JNum(0), JNum(5), JStr(<<>>), JStr(a1), JObj}

\* the inputs of the runs with two requests in flight
ConcTextValues == {JStr(<<>>), JStr(a1), JStr(sp1 \o aMax), JStr(aOver)}
ConcTextsValues == {JList(<<>>), JList(<<EStr(a1)>>), JList(<<EStr(sp1), ENum>>)}

\* ----------------------------------------------------------------- helpers
translate_text_except_200 == ErrorResp(200, "Translation failed")

\* except Exception as e: return jsonify({'error': ..., 'success': False}), 500
translate_text_except == ErrorResp(500, "Translation failed")
translate_batch_except == ErrorResp(500, "Batch translation failed")
voice_translate_except == ErrorResp(500, "Voice translation failed")

Except(knd) ==
    CASE knd = "single" -> translate_text_except
      [] knd = "batch" -> translate_batch_except
      [] knd = "voice" -> voice_translate_except

StripNeverRaises(v) == FALSE

\* x.strip() raises AttributeError when x is no string
StripRaises(v) == v.k # "str"

SkipEntryEmptyOnly(text) == text.s = <<>>

\* "if text.strip():" is false
SkipEntry(text) == Strip(text.s) = <<>>

Return(w, r) ==
    /\ resp' = [resp EXCEPT ![w] = r]
    /\ pc' = [pc EXCEPT ![w] = "done"]

\* lines 35-50 and 131-146: read 'text', strip it, reject empty and too long
BeginText(w, knd, v) ==
    /\ pc[w] = "idle"
    /\ kind' = [kind EXCEPT ![w] = knd]
    /\ data' = [data EXCEPT ![w] = v]
    /\ LET t == GetText(v)
           e == Strip(t.s)
       IN  IF StripRaises(t)
           THEN /\ Return(w, Except(knd))
                /\ UNCHANGED english_text
           ELSE IF e = <<>>
           THEN /\ Return(w, ErrorResp(400, "empty"))
                /\ UNCHANGED english_text
           ELSE IF TooLong(e)
           THEN /\ Return(w, ErrorResp(400, "too_long"))
                /\ UNCHANGED english_text
           ELSE /\ english_text' = [english_text EXCEPT ![w] = e]
                /\ pc' = [pc EXCEPT ![w] = "translate"]
                /\ UNCHANGED resp
    /\ UNCHANGED <<kannada_text, translations, idx, calls, artifacts, lastWrite>>

\* lines 54-55 and 149-150: the translation call, which returns or raises
TranslateStep(w, knd, next) ==
    /\ pc[w] = "translate"
    /\ kind[w] = knd
    /\ \E ok \in BOOLEAN :
        /\ calls' = [calls EXCEPT ![w] = Append(@, TranslateCall(english_text[w], ok))]
        /\ IF ok
           THEN /\ kannada_text' = [kannada_text EXCEPT ![w] = Kn(english_text[w])]
                /\ pc' = [pc EXCEPT ![w] = next]
                /\ UNCHANGED resp
           ELSE /\ Return(w, Except(knd))
                /\ UNCHANGED kannada_text
    /\ UNCHANGED <<kind, data, english_text, translations, idx, artifacts, lastWrite>>

\* gTTS(text=t, lang=lang).save(path).  Inside "try: ... except Exception:
\* print(...)" (guarded) a failure is swallowed and the handler goes on;
\* outside it would reach the handler's outer except
SynthStep(w, from, next, file, t, lang, guarded) ==
    /\ pc[w] = from
    /\ \E ok \in BOOLEAN :
        /\ artifacts' = Save(artifacts, file, t, lang, ok)
        /\ lastWrite' = IF ok THEN [lastWrite EXCEPT ![file] = Audio(t, lang)]
                        ELSE lastWrite
        /\ calls' = [calls EXCEPT ![w] = Append(@, SynthCall(t, lang, file, ok))]
        /\ IF ok \/ guarded
           THEN /\ pc' = [pc EXCEPT ![w] = next]
                /\ UNCHANGED resp
           ELSE Return(w, Except(kind[w]))
    /\ UNCHANGED <<kind, data, english_text, kannada_text, translations, idx>>

\* ------------------------------------------------- POST /api/translate
translate_text_begin(w, v) == BeginText(w, "single", v)

translate_text_translate(w) == TranslateStep(w, "single", "synth")

translate_text_synth_unguarded(w) ==
    /\ kind[w] = "single"
    /\ SynthStep(w, "synth", "respond", "output.mp3", kannada_text[w], "kn", FALSE)

translate_text_synth(w) ==
    /\ kind[w] = "single"
    /\ SynthStep(w, "synth", "respond", "output.mp3", kannada_text[w], "kn", TRUE)

translate_text_respond(w) ==
    /\ pc[w] = "respond"
    /\ kind[w] = "single"
    /\ Return(w, [NoResp EXCEPT !.status = 200, !.success = TRUE,
                     !.keys = {"success", "english", "kannada", "audio_url"},
                     !.english = english_text[w], !.kannada = kannada_text[w],
                     !.audio_url = "/static/output.mp3"])
    /\ UNCHANGED <<kind, data, english_text, kannada_text, translations, idx,
                   calls, artifacts, lastWrite>>

\* ------------------------------------------- POST /api/voice-translate
voice_translate_begin(w, v) == BeginText(w, "voice", v)

voice_translate_translate(w) == TranslateStep(w, "voice", "synth_en")

voice_translate_synth_english_unguarded(w) ==
    /\ kind[w] = "voice"
    /\ SynthStep(w, "synth_en", "synth_kn", "english_audio.mp3", english_text[w], "en", FALSE)

voice_translate_synth_english(w) ==
    /\ kind[w] = "voice"
    /\ SynthStep(w, "synth_en", "synth_kn", "english_audio.mp3", english_text[w], "en", TRUE)

voice_translate_synth_kannada(w) ==
    /\ kind[w] = "voice"
    /\ SynthStep(w, "synth_kn", "respond", "kannada_audio.mp3", kannada_text[w], "kn", TRUE)

voice_translate_respond(w) ==
    /\ pc[w] = "respond"
    /\ kind[w] = "voice"
    /\ Return(w, [NoResp EXCEPT !.status = 200, !.success = TRUE,
                     !.keys = {"success", "english", "kannada",
                               "english_audio_url", "kannada_audio_url"},
                     !.english = english_text[w], !.kannada = kannada_text[w],
                     !.english_audio_url = "/static/english_audio.mp3",
                     !.kannada_audio_url = "/static/kannada_audio.mp3"])
    /\ UNCHANGED <<kind, data, english_text, kannada_text, translations, idx,
                   calls, artifacts, lastWrite>>

\* ------------------------------------------- POST /api/translate-batch
translate_batch_begin(w, v) ==
    /\ pc[w] = "idle"
    /\ kind' = [kind EXCEPT ![w] = "batch"]
    /\ data' = [data EXCEPT ![w] = v]
    /\ IF RejectTexts(GetTexts(v))
       THEN /\ Return(w, ErrorResp(400, "not_list"))
            /\ UNCHANGED idx
       ELSE /\ pc' = [pc EXCEPT ![w] = "loop"]
            /\ idx' = [idx EXCEPT ![w] = 1]
            /\ UNCHANGED resp
    /\ UNCHANGED <<english_text, kannada_text, translations, calls, artifacts, lastWrite>>

\* one pass of "for text in texts" (lines 102-108)
translate_batch_item(w) ==
    /\ pc[w] = "loop"
    /\ idx[w] <= Len(GetTexts(data[w]).l)
    /\ LET text == GetTexts(data[w]).l[idx[w]]
       IN  IF StripRaises(text)
           THEN /\ Return(w, translate_batch_except)
                /\ UNCHANGED <<translations, idx, calls>>
           ELSE IF SkipEntry(text)
           THEN /\ idx' = [idx EXCEPT ![w] = @ + 1]
                /\ UNCHANGED <<pc, resp, translations, calls>>
           ELSE \E ok \in BOOLEAN :
                /\ calls' = [calls EXCEPT ![w] = Append(@, TranslateCall(text.s, ok))]
                /\ IF ok
                   THEN /\ translations' = [translations EXCEPT ![w] =
                               Append(@, [english |-> text.s, kannada |-> Kn(text.s)])]
                        /\ idx' = [idx EXCEPT ![w] = @ + 1]
                        /\ UNCHANGED <<pc, resp>>
                   ELSE /\ Return(w, translate_batch_except)
                        /\ UNCHANGED <<translations, idx>>
    /\ UNCHANGED <<kind, data, english_text, kannada_text, artifacts, lastWrite>>

translate_batch_respond(w) ==
    /\ pc[w] = "loop"
    /\ idx[w] > Len(GetTexts(data[w]).l)
    /\ Return(w, [NoResp EXCEPT !.status = 200, !.success = TRUE,
                     !.keys = {"success", "translations"},
                     !.translations = translations[w]])
    /\ UNCHANGED <<kind, data, english_text, kannada_text, translations, idx,
                   calls, artifacts, lastWrite>>

\* the response is sent and the thread is free for the next request; the
\* handler's locals are gone, the files stay
Finish(w) ==
    /\ pc[w] = "done"
    /\ pc' = [pc EXCEPT ![w] = "idle"]
    /\ kind' = [kind EXCEPT ![w] = "none"]
    /\ data' = [data EXCEPT ![w] = JMissing]
    /\ english_text' = [english_text EXCEPT ![w] = <<>>]
    /\ kannada_text' = [kannada_text EXCEPT ![w] = <<>>]
    /\ translations' = [translations EXCEPT ![w] = <<>>]
    /\ idx' = [idx EXCEPT ![w] = 0]
    /\ calls' = [calls EXCEPT ![w] = <<>>]
    /\ resp' = [resp EXCEPT ![w] = NoResp]
    /\ UNCHANGED <<artifacts, lastWrite>>

Step(w) ==
    \/ translate_text_translate(w)
    \/ translate_text_synth(w)
    \/ translate_text_respond(w)
    \/ voice_translate_translate(w)
    \/ voice_translate_synth_english(w)
    \/ voice_translate_synth_kannada(w)
    \/ voice_translate_respond(w)
    \/ translate_batch_item(w)
    \/ translate_batch_respond(w)
    \/ Finish(w)

\* one request at a time, every input
Next ==
    \/ \E v \in TextValues : translate_text_begin("A", v)
    \/ \E v \in TextValues : voice_translate_begin("A", v)
    \/ \E v \in TextsValues : translate_batch_begin("A", v)
    \/ Step("A")

Spec == Init /\ [][Next]_vars

\* two requests in flight, interleaved at their external calls
NextConc ==
    \E w \in Workers :
        \/ \E v \in ConcTextValues : translate_text_begin(w, v)
        \/ \E v \in ConcTextValues : voice_translate_begin(w, v)
        \/ \E v \in ConcTextsValues : translate_batch_begin(w, v)
        \/ Step(w)

SpecConc == Init /\ [][NextConc]_vars

\* ------------------------------------------------------------------ claims
\* The words of the claims, written without the operators of the handlers.

Done(w) == pc[w] = "done"

\* every character is whitespace (the empty string included)
AllWhitespace(t) == \A i \in DOMAIN t : t[i][1] \in Whitespace

\* the text without its leading and its trailing whitespace
RECURSIVE DropLeading(_)
DropLeading(t) ==
    IF t # <<>> /\ Head(t)[1] \in Whitespace THEN DropLeading(Tail(t)) ELSE t

Reverse(t) == [i \in 1..Len(t) |-> t[Len(t) + 1 - i]]

Trimmed(t) == Reverse(DropLeading(Reverse(DropLeading(t))))

TextHandlers == {"single", "voice"}

ValidationFailure(r) ==
    r.status = 400 /\ ~r.success /\ r.keys = {"error", "success"}

ServerFailure(r) ==
    r.status = 500 /\ ~r.success /\ r.keys = {"error", "success"}

SynthCallsOf(w) == {i \in DOMAIN calls[w] : calls[w][i].op = "synth"}
TranslateCallsOf(w) == {i \in DOMAIN calls[w] : calls[w][i].op = "translate"}

\* C1: a request to translate_text or voice_translate whose text is an empty
\* or all-whitespace string, or is missing, ends in a 400 response with
\* success = false, and no translation and no synthesis call was made for it.
C1_BlankTextRejected ==
    \A w \in Workers :
        (/\ Done(w)
         /\ kind[w] \in TextHandlers
         /\ data[w].k \in {"str", "missing"}
         /\ AllWhitespace(data[w].s))
        => /\ ValidationFailure(resp[w])
           /\ calls[w] = <<>>

C1_Witness ==
    \E w \in Workers :
        /\ Done(w)
        /\ kind[w] = "voice"
        /\ data[w] = JMissing
        /\ ValidationFailure(resp[w])
        /\ calls[w] = <<>>

\* C2: a text whose length after trimming exceeds 500 is rejected with 400
\* and no external call; a text whose trimmed length is between 1 and 500
\* passes validation (a translation call is made), whatever its untrimmed
\* length.
C2_LengthAfterTrim ==
    \A w \in Workers :
        (Done(w) /\ kind[w] \in TextHandlers /\ data[w].k = "str")
        => LET n == StrLen(Trimmed(data[w].s))
           IN  /\ n > 500 => ValidationFailure(resp[w]) /\ calls[w] = <<>>
               /\ (n >= 1 /\ n <= 500)
                    => /\ resp[w].status # 400
                       /\ calls[w] # <<>>
                       /\ calls[w][1].op = "translate"

C2_Witness ==
    \E w \in Workers :
        /\ Done(w)
        /\ kind[w] = "single"
        /\ data[w].k = "str"
        /\ StrLen(data[w].s) > 500
        /\ StrLen(Trimmed(data[w].s)) = 500
        /\ resp[w].status = 200

\* C3: when the translation call of translate_text or voice_translate fails,
\* the step that sees the failure returns a 500 response with success = false,
\* the request has made no synthesis call, and the step leaves every artifact
\* as it was.
C3_TranslationFailureAborts ==
    [][\A w \in Workers :
        (/\ kind[w] \in TextHandlers
         /\ Len(calls'[w]) = Len(calls[w]) + 1
         /\ calls'[w][Len(calls'[w])].op = "translate"
         /\ ~calls'[w][Len(calls'[w])].ok)
        => /\ Done(w)'
           /\ ServerFailure(resp'[w])
           /\ SynthCallsOf(w)' = {}
           /\ artifacts' = artifacts]_vars

C3_Witness ==
    \E w \in Workers :
        /\ Done(w)
        /\ kind[w] = "single"
        /\ Len(calls[w]) = 1
        /\ ~calls[w][1].ok
        /\ ServerFailure(resp[w])

\* C4: when translation succeeds and synthesis fails in translate_text, the
\* response is 200 with success = true, the trimmed English text, its Kannada
\* translation and audio_url = "/static/output.mp3".
C4_SynthFailureIsolated ==
    \A w \in Workers :
        (/\ kind[w] = "single"
         /\ Len(calls[w]) >= 2
         /\ calls[w][1].op = "translate" /\ calls[w][1].ok
         /\ calls[w][2].op = "synth" /\ ~calls[w][2].ok)
        => /\ pc[w] \in {"respond", "done"}
           /\ Done(w) =>
                /\ resp[w].status = 200
                /\ resp[w].success
                /\ resp[w].english = Trimmed(data[w].s)
                /\ resp[w].kannada = Kn(Trimmed(data[w].s))
                /\ resp[w].audio_url = "/static/output.mp3"
                /\ resp[w].keys = {"success", "english", "kannada", "audio_url"}

C4_Witness ==
    \E w \in Workers :
        /\ Done(w)
        /\ kind[w] = "single"
        /\ Len(calls[w]) = 2
        /\ calls[w][1].ok
        /\ ~calls[w][2].ok
        /\ resp[w].status = 200
        /\ data[w].s # Trimmed(data[w].s)

\* C5: in voice_translate on a validated text whose translation succeeds,
\* the calls are, in this order and once each, the translation, the English
\* synthesis to english_audio.mp3 and the Kannada synthesis to
\* kannada_audio.mp3, whichever of the two syntheses fails, and the response
\* is 200 with the two fixed URLs; translation is never called twice.
C5_VoiceSynthesesIndependent ==
    \A w \in Workers :
        kind[w] = "voice"
        => /\ Cardinality(TranslateCallsOf(w)) <= 1
           /\ pc[w] \in {"synth_en", "synth_kn", "respond"} \/ (Done(w) /\ resp[w].status # 400)
                => (data[w].k = "str" => calls[w] # <<>> /\ calls[w][1].op = "translate")
           /\ (Done(w) /\ calls[w] # <<>> /\ calls[w][1].ok)
                => /\ Len(calls[w]) = 3
                   /\ calls[w][1] = TranslateCall(Trimmed(data[w].s), TRUE)
                   /\ \E ok \in BOOLEAN : calls[w][2] =
                          SynthCall(Trimmed(data[w].s), "en", "english_audio.mp3", ok)
                   /\ \E ok \in BOOLEAN : calls[w][3] =
                          SynthCall(Kn(Trimmed(data[w].s)), "kn", "kannada_audio.mp3", ok)
                   /\ resp[w].status = 200
                   /\ resp[w].success
                   /\ resp[w].english_audio_url = "/static/english_audio.mp3"
                   /\ resp[w].kannada_audio_url = "/static/kannada_audio.mp3"

C5_Witness ==
    \E w \in Workers :
        /\ Done(w)
        /\ kind[w] = "voice"
        /\ Len(calls[w]) = 3
        /\ ~calls[w][2].ok
        /\ calls[w][3].ok
        /\ resp[w].status = 200

IsStrEntry(e) == e.k = "str"
Blank(e) == AllWhitespace(e.s)

\* the entries of l that are not blank, in the order of l
RECURSIVE NonBlank(_)
NonBlank(l) ==
    IF l = <<>> THEN <<>>
    ELSE IF Blank(Head(l)) THEN NonBlank(Tail(l))
    ELSE <<Head(l)>> \o NonBlank(Tail(l))

AllStrings(l) == \A i \in DOMAIN l : IsStrEntry(l[i])
AllCallsOk(w) == \A i \in DOMAIN calls[w] : calls[w][i].ok
BatchAccepted(w) == kind[w] = "batch" /\ data[w].k = "list" /\ data[w].l # <<>>

\* C6: for a non-empty list of strings whose translation calls all succeed,
\* translate_batch returns 200 with one {english, kannada} entry per entry
\* that is not blank, in input order, and the translation calls made are
\* exactly one per such entry, in that order (none for a blank entry).
C6_BatchSkipsBlank ==
    \A w \in Workers :
        (Done(w) /\ BatchAccepted(w) /\ AllStrings(data[w].l) /\ AllCallsOk(w))
        => LET nb == NonBlank(data[w].l)
           IN  /\ resp[w].status = 200
               /\ resp[w].success
               /\ resp[w].keys = {"success", "translations"}
               /\ resp[w].translations =
                      [i \in 1..Len(nb) |-> [english |-> nb[i].s, kannada |-> Kn(nb[i].s)]]
               /\ calls[w] = [i \in 1..Len(nb) |-> TranslateCall(nb[i].s, TRUE)]

C6_Witness ==
    \E w \in Workers :
        /\ Done(w)
        /\ BatchAccepted(w)
        /\ Len(data[w].l) = 3
        /\ ~Blank(data[w].l[1])
        /\ Blank(data[w].l[2])
        /\ data[w].l[2].s # <<>>
        /\ ~Blank(data[w].l[3])
        /\ data[w].l[1] # data[w].l[3]
        /\ resp[w].status = 200
        /\ Len(resp[w].translations) = 2

\* C7: translate_batch returns 400 with success = false and makes no
\* translation call when texts is the empty list, is missing, or is no list.
C7_BatchRejectsNonList ==
    \A w \in Workers :
        (Done(w) /\ kind[w] = "batch" /\ (data[w].k # "list" \/ data[w].l = <<>>))
        => /\ ValidationFailure(resp[w])
           /\ calls[w] = <<>>

C7_Witness ==
    \E w \in Workers :
        /\ Done(w)
        /\ kind[w] = "batch"
        /\ data[w].k = "num"
        /\ data[w].n # 0
        /\ ValidationFailure(resp[w])

\* C8: translate_batch is all-or-nothing: when an entry is no string or a
\* translation call fails, the response is 500 with success = false and no
\* translations field, whatever was translated before; the failed call is
\* the last call made, and no entry after the failing one was translated.
C8_BatchAllOrNothing ==
    \A w \in Workers :
        (Done(w) /\ BatchAccepted(w) /\ (~AllStrings(data[w].l) \/ ~AllCallsOk(w)))
        => /\ ServerFailure(resp[w])
           /\ "translations" \notin resp[w].keys
           /\ resp[w].translations = <<>>
           /\ \A i \in 1..(Len(calls[w]) - 1) : calls[w][i].ok
           /\ \E k \in DOMAIN data[w].l :
                /\ AllStrings(SubSeq(data[w].l, 1, k - 1))
                /\ LET before == NonBlank(SubSeq(data[w].l, 1, k - 1))
                   IN  \/ /\ ~IsStrEntry(data[w].l[k])
                          /\ calls[w] = [i \in 1..Len(before) |-> TranslateCall(before[i].s, TRUE)]
                       \/ /\ IsStrEntry(data[w].l[k])
                          /\ ~Blank(data[w].l[k])
                          /\ calls[w] = [i \in 1..Len(before) |-> TranslateCall(before[i].s, TRUE)]
                                           \o <<TranslateCall(data[w].l[k].s, FALSE)>>

C8_Witness ==
    \E w \in Workers :
        /\ Done(w)
        /\ BatchAccepted(w)
        /\ Len(data[w].l) = 3
        /\ Len(calls[w]) = 2
        /\ calls[w][1].ok
        /\ ~calls[w][2].ok
        /\ ~Blank(data[w].l[3])
        /\ IsStrEntry(data[w].l[3])
        /\ Len(translations[w]) = 1
        /\ ServerFailure(resp[w])

\* C9: with requests in flight concurrently, the file output.mp3 (like the
\* other two) always holds what the synthesis write that landed last put
\* there, whichever request made it, and a successful translate_text response
\* names "/static/output.mp3" whatever the file holds.
C9_LastWriteWins ==
    /\ \A f \in Files : artifacts[f] = lastWrite[f]
    /\ \A w \in Workers :
        (Done(w) /\ kind[w] = "single" /\ resp[w].success)
        => resp[w].audio_url = "/static/output.mp3"

\* request a wrote output.mp3, request b overwrote it before a responded, and
\* the file holds the audio of b's translation, not of a's
C9_Witness ==
    \E a, b \in Workers :
        /\ a # b
        /\ kind[a] = "single" /\ kind[b] = "single"
        /\ pc[a] = "respond"
        /\ Len(calls[a]) = 2 /\ calls[a][2].ok
        /\ Len(calls[b]) = 2 /\ calls[b][2].ok
        /\ kannada_text[a] # kannada_text[b]
        /\ artifacts["output.mp3"] = Audio(kannada_text[b], "kn")
        /\ artifacts["output.mp3"] # Audio(kannada_text[a], "kn")

\* the worker w takes a step
Moves(w) == pc'[w] # pc[w] \/ idx'[w] # idx[w]

\* C10: a step of translate_batch makes no synthesis call and changes no
\* artifact; a step of translate_text changes at most output.mp3; a step of
\* voice_translate changes at most english_audio.mp3 and kannada_audio.mp3;
\* the step that returns a validation failure (the only step of its request)
\* changes no artifact; no step removes an artifact that exists.
C10_OwnArtifactsOnly ==
    [][/\ \A w \in Workers :
            Moves(w) =>
                /\ kind'[w] = "batch"
                     => artifacts' = artifacts /\ SynthCallsOf(w)' = {}
                /\ kind'[w] = "single"
                     => \A f \in Files \ {"output.mp3"} : artifacts'[f] = artifacts[f]
                /\ kind'[w] = "voice"
                     => artifacts'["output.mp3"] = artifacts["output.mp3"]
                /\ resp'[w].status = 400
                     => artifacts' = artifacts /\ pc[w] = "idle"
       /\ \A f \in Files : artifacts[f] # NoFile => artifacts'[f] # NoFile]_vars

C10_Witness ==
    \E v, b \in Workers :
        /\ kind[v] = "voice"
        /\ Done(v)
        /\ artifacts["english_audio.mp3"] = Audio(english_text[v], "en")
        /\ artifacts["kannada_audio.mp3"] = Audio(kannada_text[v], "kn")
        /\ artifacts["output.mp3"] # NoFile
        /\ kind[b] = "batch"
        /\ Done(b)
        /\ resp[b].status = 200

====
